---------------------------- MODULE Spec2Model ----------------------------
(***************************************************************************)
(* Model of the audio-agent speech pipeline:                               *)
(*   - the text sanitizer and segmenter of the TTS worker                  *)
(*     (tts_worker/app.py: _sanitize_tts_text, _split_text_for_tts);       *)
(*   - the /v1/tts request handler and its process-wide synthesis gate     *)
(*     (tts_worker/app.py: tts, _SYNTH_SEMAPHORE, _get_service);           *)
(*   - the stream session state machine of section 4.4 of the design;      *)
(*   - the microphone client and its three threads (client/mic_client.py); *)
(*   - the sample counts of the resampling steps (tts_worker/service.py:   *)
(*     synthesize_wav_b64, tts_worker/app.py: _decode_wav_to_pcm16).       *)
(* Texts are sequences of one-character strings.                           *)
(***************************************************************************)
EXTENDS Integers, Sequences, FiniteSets, TLC

VARIABLES
    text,        \* argument of _sanitize_tts_text / _split_text_for_tts
    max_chars,   \* argument of _split_text_for_tts
    cleaned,     \* _sanitize_tts_text(text)
    recleaned,   \* _sanitize_tts_text(cleaned)
    chunks,      \* result of _split_text_for_tts(text, max_chars)
    tpc,         \* which calls have been made on this input
    req_text,    \* per request: index in RequestTexts of req.text (0: none)
    pc,          \* per request: where its tts() coroutine stands
    status,      \* per request: HTTP status of its response (0: none yet)
    sem_value,   \* _SYNTH_SEMAPHORE._value
    sem_waiters, \* _SYNTH_SEMAPHORE._waiters, the requests awaiting in acquire()
    woken,       \* the waiters whose future has its result set
    service,     \* the module global _service
    constructed, \* number of TtsService objects constructed in this process
    thread,      \* per request: the worker thread of its asyncio.to_thread call
    synth_arg,   \* per request: the text passed to service.synthesize_wav_b64
    synth_calls, \* per request: number of synthesize_wav_b64 calls made for it
    wav_len,     \* len(wav): the samples the voice model returned
    source_sr,   \* the sample rate of those samples
    file_len,    \* the samples of the WAV that synthesize_wav_b64 wrote
    file_sr,     \* the sample rate that WAV declares
    pcm_len,     \* the samples _decode_wav_to_pcm16 returned
    resampled,   \* the functions that called scipy_signal.resample
    apc,         \* how far the audio has come
    main_pc,     \* mic_client: where the main thread stands in main()
    ws_pc,       \* mic_client: where the thread of ws.run_forever stands
    cap_pc,      \* mic_client: where the thread of _capture stands
    conn,        \* mic_client: the connection, as ws.send finds it
    stop_event,  \* mic_client: stop_event.is_set()
    sent,        \* mic_client: the messages ws.send has put on the connection
    srv_read,    \* how many of them the session of the server has received
    inbox,       \* the messages of the server on their way to the client
    handled,     \* mic_client: the result messages on_message has handled
    sess_state,        \* StreamSession.state
    sess_error,        \* the error kind that failed the session ("none" while none)
    accumulated_audio, \* StreamSession.accumulated_audio, as frame sequence numbers
    last_seq,          \* frame_sequence_number of the last frame accepted
    results,           \* number of result messages the session has emitted
    frame_policy,      \* the policy chosen for a frame that arrives before start
    delivered,         \* number of messages delivered to the session
    ignored            \* number of messages ignored after termination

textVars == <<text, max_chars, cleaned, recleaned, chunks, tpc>>

gateVars == <<req_text, pc, status, sem_value, sem_waiters, woken,
              service, constructed, thread, synth_arg, synth_calls>>

sessVars == <<sess_state, sess_error, accumulated_audio, last_seq, results,
              frame_policy, delivered, ignored>>

audioVars == <<wav_len, source_sr, file_len, file_sr, pcm_len, resampled, apc>>

clientVars == <<main_pc, ws_pc, cap_pc, conn, stop_event, sent, srv_read,
                inbox, handled>>

vars == <<textVars, gateVars, sessVars, audioVars, clientVars>>

---------------------------------------------------------------------------
(* Character classes used by the regular expressions of app.py.            *)

Star == "*"

\* \s of the re module, restricted to the characters of the model
Whitespace == {" ", "\n"}

Newline == "\n"

\* the character class of the second re.sub: backtick, underscore, tilde
\* (U+0060 cannot be written inside a string of this language: the model
\* names it)
Backtick == "backtick"
Markers == {Backtick, "_", "~"}

\* the class [.!?]
Terminators == {".", "!", "?"}

\* position of a character deleted by a substitution
Dropped == ""

MinOf(S) == CHOOSE x \in S : \A y \in S : x <= y

RangeOf(s) == {s[i] : i \in DOMAIN s}

\* first index k >= i with s[k] outside C; Len(s)+1 when there is none
SkipWhile(s, i, C) ==
    LET stops == {k \in i..Len(s) : s[k] \notin C}
    IN  IF stops = {} THEN Len(s) + 1 ELSE MinOf(stops)

\* first index k >= i with s[k] inside C; Len(s)+1 when there is none
SkipUntil(s, i, C) ==
    LET stops == {k \in i..Len(s) : s[k] \in C}
    IN  IF stops = {} THEN Len(s) + 1 ELSE MinOf(stops)

\* str.strip(): leading and trailing whitespace removed
Strip(s) ==
    LET solid == {k \in 1..Len(s) : s[k] \notin Whitespace}
    IN  IF solid = {} THEN <<>>
        ELSE SubSeq(s, MinOf(solid), CHOOSE x \in solid : \A y \in solid : y <= x)

---------------------------------------------------------------------------
(* _sanitize_tts_text, one operator per re.sub of the function.            *)

\* \*{1,3}([^*]+)\*{1,3} matches at i: one to three stars that end the star
\* run, a non-empty run of non-stars, and a star after it.
EmphasisOpenEnd(s, i) == SkipWhile(s, i, {Star})
EmphasisBodyEnd(s, i) == SkipUntil(s, EmphasisOpenEnd(s, i), {Star})
EmphasisMatches(s, i) ==
    /\ s[i] = Star
    /\ EmphasisOpenEnd(s, i) - i <= 3
    /\ EmphasisOpenEnd(s, i) <= Len(s)
    /\ EmphasisBodyEnd(s, i) <= Len(s)
\* the closing \*{1,3} is greedy: up to three stars of the closing run
EmphasisMatchEnd(s, i) ==
    LET b == EmphasisBodyEnd(s, i)
        e == SkipWhile(s, b, {Star})
    IN  IF e - b > 3 THEN b + 3 ELSE e

\* re.sub(r"\*{1,3}([^*]+)\*{1,3}", r"\1", s), scanning from index i:
\* leftmost matches, not overlapping, each replaced by its group 1
RECURSIVE SubEmphasis(_, _)
SubEmphasis(s, i) ==
    IF i > Len(s) THEN <<>>
    ELSE IF s[i] # Star
         THEN LET n == SkipUntil(s, i, {Star})
              IN  SubSeq(s, i, n - 1) \o SubEmphasis(s, n)
    ELSE IF EmphasisMatches(s, i)
         THEN SubSeq(s, EmphasisOpenEnd(s, i), EmphasisBodyEnd(s, i) - 1)
                  \o SubEmphasis(s, EmphasisMatchEnd(s, i))
    ELSE <<Star>> \o SubEmphasis(s, i + 1)

\* the second re.sub: every marker character is deleted
SubMarkers(s) == SelectSeq(s, LAMBDA c : c \notin Markers)

\* start of the whitespace run that holds index i
RunStart(s, i) ==
    MinOf({j \in 1..i : \A k \in j..i : s[k] \in Whitespace})

\* re.sub(r"\s*\n+\s*", " ", s): every whitespace run that holds a newline
\* becomes one space
SubNewlines(s) ==
    LET InNewlineRun(i) ==
            /\ s[i] \in Whitespace
            /\ \E k \in RunStart(s, i)..(SkipWhile(s, i, Whitespace) - 1) : s[k] = Newline
        marked == [i \in 1..Len(s) |->
                     IF InNewlineRun(i)
                     THEN (IF RunStart(s, i) = i THEN " " ELSE Dropped)
                     ELSE s[i]]
    IN  SelectSeq(marked, LAMBDA c : c # Dropped)

\* re.sub(r"\s+", " ", s): every whitespace run becomes one space
SubSpaces(s) ==
    LET marked == [i \in 1..Len(s) |->
                     IF s[i] \in Whitespace
                     THEN (IF i = 1 \/ s[i - 1] \notin Whitespace THEN " " ELSE Dropped)
                     ELSE s[i]]
    IN  SelectSeq(marked, LAMBDA c : c # Dropped)

_sanitize_tts_text(t) ==
    Strip(SubSpaces(SubNewlines(SubMarkers(SubEmphasis(t, 1)))))

---------------------------------------------------------------------------
(* _split_text_for_tts.                                                    *)

\* re.split(r"(?<=[.!?])\s+", s) from the piece that starts at index i
RECURSIVE SplitSentences(_, _)
SplitSentences(s, i) ==
    LET cuts == {k \in i..Len(s) :
                    /\ s[k] \in Whitespace
                    /\ k > 1
                    /\ s[k - 1] \in Terminators}
    IN  IF cuts = {} THEN <<SubSeq(s, i, Len(s))>>
        ELSE LET k == MinOf(cuts)
             IN  <<SubSeq(s, i, k - 1)>> \o SplitSentences(s, SkipWhile(s, k, Whitespace))

\* the hard split of one sentence longer than max: the stripped slices
\* sentence[i:i + max] for i = 0, max, 2 max, ..., the empty ones left out
\* range(0, len(sentence), max): the number of slices
NumSlices(sentence, max) == (Len(sentence) + max - 1) \div max

\* sentence[i:i + max] for the j-th i of the range
Slice(sentence, j, max) ==
    SubSeq(sentence, (j - 1) * max + 1,
           IF j * max > Len(sentence) THEN Len(sentence) ELSE j * max)

\* a hard split that appends every slice as it was cut
HardSplitUnstripped(sentence, max) ==
    [j \in 1..NumSlices(sentence, max) |-> Slice(sentence, j, max)]

HardSplit(sentence, max) ==
    LET parts == [j \in 1..NumSlices(sentence, max) |-> Strip(Slice(sentence, j, max))]
    IN  SelectSeq(parts, LAMBDA p : p # <<>>)

\* a packing test that refuses a sentence that would fill the chunk exactly
FitsStrictly(current, sentence, max) ==
    Len(current) + 1 + Len(sentence) < max

\* a packing test that never packs
FitsNever(current, sentence, max) == FALSE

\* len(current) + 1 + len(sentence) <= max_chars
Fits(current, sentence, max) ==
    Len(current) + 1 + Len(sentence) <= max

\* the loop over sentences, from sentence k, with the chunks and current of the loop
RECURSIVE PackSentences(_, _, _, _, _)
PackSentences(sentences, k, max, acc, current) ==
    IF k > Len(sentences)
    THEN (IF current # <<>> THEN Append(acc, current) ELSE acc)
    ELSE LET sentence == sentences[k]
         IN  IF sentence = <<>>
             THEN PackSentences(sentences, k + 1, max, acc, current)
             ELSE IF Len(sentence) > max
             THEN PackSentences(sentences, k + 1, max, acc \o HardSplit(sentence, max), <<>>)
             ELSE IF current = <<>>
             THEN PackSentences(sentences, k + 1, max, acc, sentence)
             ELSE IF Fits(current, sentence, max)
             THEN PackSentences(sentences, k + 1, max, acc, current \o <<" ">> \o sentence)
             ELSE PackSentences(sentences, k + 1, max, Append(acc, current), sentence)

_split_text_for_tts(t, max) ==
    LET c == _sanitize_tts_text(t)
    IN  IF Len(c) <= max THEN <<c>>
        ELSE PackSentences(SplitSentences(c, 1), 1, max, <<>>, <<>>)

---------------------------------------------------------------------------
(* The /v1/tts handler and the synthesis gate.                             *)

MAX_TEXT_LENGTH == 4000
MAX_TTS_CHUNK_CHARS == 500
SEMAPHORE_SIZE == 1

NumRequests == 3
Requests == 1..NumRequests

Repeat(c, n) == [i \in 1..n |-> c]

\* the request texts the clients send
RequestTexts ==
    << <<"*", "a", "*">>,
       <<" ">>,
       Repeat("a", MAX_TTS_CHUNK_CHARS + 1),
       Repeat("a", MAX_TEXT_LENGTH + 1) >>

\* text = req.text.strip()
StrippedTexts == [i \in DOMAIN RequestTexts |-> Strip(RequestTexts[i])]

\* cleaned = _sanitize_tts_text(text)
CleanedTexts == [i \in DOMAIN RequestTexts |-> _sanitize_tts_text(StrippedTexts[i])]

\* a size-limit check that never rejects
RequestErrorNoLimit(t) ==
    IF t = <<>> THEN 400 ELSE 0

\* the two checks before the gate: the status of the HTTPException raised
\* for the stripped text t, 0 when none is raised
RequestError(t) ==
    IF t = <<>> THEN 400
    ELSE IF Len(t) > MAX_TEXT_LENGTH THEN 413
    ELSE 0

\* Semaphore.locked(); a cancelled waiter has left sem_waiters
Locked == sem_value = 0 \/ sem_waiters # <<>>

Without(waiters, r) == SelectSeq(waiters, LAMBDA q : q # r)

\* a wake-up that takes the waiter that queued last
WakeUpLast(value, waiters, wk) ==
    LET pending == {i \in 1..Len(waiters) : waiters[i] \notin wk}
    IN  IF pending = {} THEN [value |-> value, woken |-> wk]
        ELSE [value |-> value - 1,
              woken |-> wk \cup {waiters[CHOOSE i \in pending : \A j \in pending : j <= i]}]

\* Semaphore._wake_up_next(): the first waiter whose future is not done gets
\* the permit and its future is resolved
WakeUpNext(value, waiters, wk) ==
    LET pending == {i \in 1..Len(waiters) : waiters[i] \notin wk}
    IN  IF pending = {} THEN [value |-> value, woken |-> wk]
        ELSE [value |-> value - 1, woken |-> wk \cup {waiters[MinOf(pending)]}]

\* Semaphore.release()
Release(value, waiters, wk) == WakeUpNext(value + 1, waiters, wk)

\* an exit that releases the permit only when the block ended normally
ExitGateOnSuccessOnly(st, value, waiters, wk) ==
    /\ sem_waiters' = waiters
    /\ IF st = 200
       THEN /\ sem_value' = Release(value, waiters, wk).value
            /\ woken' = Release(value, waiters, wk).woken
       ELSE /\ sem_value' = value
            /\ woken' = wk

\* leaving "async with _SYNTH_SEMAPHORE" with outcome st (200, 500, or 0 for
\* CancelledError) from the semaphore state (value, waiters, wk): __aexit__
\* releases whatever the outcome
ExitGate(st, value, waiters, wk) ==
    /\ sem_waiters' = waiters
    /\ sem_value' = Release(value, waiters, wk).value
    /\ woken' = Release(value, waiters, wk).woken

\* a _get_service that builds a service at every call
GetServiceAlwaysConstructs(svc, n) ==
    {[service |-> "TtsService", constructed |-> IF n < 2 THEN n + 1 ELSE n, raised |-> FALSE],
     [service |-> svc, constructed |-> n, raised |-> TRUE]}

\* _get_service() when _service is svc and n services have been constructed:
\* the outcomes of the call. TtsService(...) is called only if _service is
\* None; it may raise, and then _service is not assigned
GetService(svc, n) ==
    IF svc = "None"
    THEN {[service |-> "TtsService", constructed |-> n + 1, raised |-> FALSE],
          [service |-> "None", constructed |-> n, raised |-> TRUE]}
    ELSE {[service |-> svc, constructed |-> n, raised |-> FALSE]}

\* lines 144-148 for request r with text RequestTexts[i], which has just
\* acquired the gate, leaving the semaphore as (value, waiters, wk):
\* _get_service(), then the sanitized text goes to a worker thread
InGate(r, i, value, waiters, wk) ==
    \E o \in GetService(service, constructed) :
        /\ service' = o.service
        /\ constructed' = o.constructed
        /\ IF ~o.raised
           THEN /\ thread' = [thread EXCEPT ![r] = "running"]
                /\ synth_arg' = [synth_arg EXCEPT ![r] = CleanedTexts[i]]
                /\ synth_calls' = [synth_calls EXCEPT ![r] = @ + 1]
                /\ pc' = [pc EXCEPT ![r] = "synth"]
                /\ sem_value' = value
                /\ sem_waiters' = waiters
                /\ woken' = wk
                /\ UNCHANGED status
           ELSE /\ pc' = [pc EXCEPT ![r] = "done"]
                /\ status' = [status EXCEPT ![r] = 500]
                /\ ExitGate(500, value, waiters, wk)
                /\ UNCHANGED <<thread, synth_arg, synth_calls>>

\* a request arrives and its handler runs to its first suspension
Submit(r, i) ==
    /\ pc[r] = "idle"
    /\ req_text' = [req_text EXCEPT ![r] = i]
    /\ LET err == RequestError(StrippedTexts[i])
       IN  IF err # 0
           THEN /\ pc' = [pc EXCEPT ![r] = "done"]
                /\ status' = [status EXCEPT ![r] = err]
                /\ UNCHANGED <<sem_value, sem_waiters, woken, service, constructed,
                               thread, synth_arg, synth_calls>>
           ELSE IF ~Locked
           THEN InGate(r, i, sem_value - 1, sem_waiters, woken)
           ELSE /\ sem_waiters' = Append(sem_waiters, r)
                /\ pc' = [pc EXCEPT ![r] = "waiting"]
                /\ UNCHANGED <<status, sem_value, woken, service, constructed,
                               thread, synth_arg, synth_calls>>
    /\ UNCHANGED <<textVars, sessVars, audioVars, clientVars>>

\* a woken waiter resumes in acquire(): it leaves the deque, passes a spare
\* permit on, and enters the block
WaiterResume(r) ==
    /\ pc[r] = "waiting"
    /\ r \in woken
    /\ LET w == Without(sem_waiters, r)
           wk == woken \ {r}
           s == IF sem_value > 0 THEN WakeUpNext(sem_value, w, wk)
                ELSE [value |-> sem_value, woken |-> wk]
       IN  InGate(r, req_text[r], s.value, w, s.woken)
    /\ UNCHANGED <<req_text, textVars, sessVars, audioVars, clientVars>>

\* service.synthesize_wav_b64 returns in its worker thread; the result of a
\* call whose task was cancelled is dropped with the thread
ThreadReturn(r) ==
    /\ thread[r] = "running"
    /\ thread' = [thread EXCEPT ![r] = IF pc[r] = "synth" THEN "returned" ELSE "none"]
    /\ UNCHANGED <<req_text, pc, status, sem_value, sem_waiters, woken,
                   service, constructed, synth_arg, synth_calls, textVars, sessVars, audioVars, clientVars>>

\* service.synthesize_wav_b64 raises in its worker thread
ThreadRaise(r) ==
    /\ thread[r] = "running"
    /\ thread' = [thread EXCEPT ![r] = IF pc[r] = "synth" THEN "raised" ELSE "none"]
    /\ UNCHANGED <<req_text, pc, status, sem_value, sem_waiters, woken,
                   service, constructed, synth_arg, synth_calls, textVars, sessVars, audioVars, clientVars>>

\* the handler resumes after await asyncio.to_thread: the exception of the
\* thread, or one of _decode_wav_to_pcm16, ends it with a 500; the block is left
TaskResume(r) ==
    /\ pc[r] = "synth"
    /\ thread[r] \in {"returned", "raised"}
    /\ \E st \in {200, 500} :
          /\ thread[r] = "raised" => st = 500
          /\ status' = [status EXCEPT ![r] = st]
          /\ ExitGate(st, sem_value, sem_waiters, woken)
    /\ pc' = [pc EXCEPT ![r] = "done"]
    /\ thread' = [thread EXCEPT ![r] = "none"]
    /\ UNCHANGED <<req_text, service, constructed, synth_arg, synth_calls,
                   textVars, sessVars, audioVars, clientVars>>

\* the task of request r is cancelled at its await: CancelledError is raised
\* in acquire() (the waiter leaves, a permit already handed to it is passed
\* on) or at await asyncio.to_thread (the block is left; the thread runs on)
Cancel(r) ==
    /\ pc[r] \in {"waiting", "synth"}
    /\ IF pc[r] = "synth"
       THEN ExitGate(0, sem_value, sem_waiters, woken)
       ELSE IF r \in woken
       THEN LET w == Without(sem_waiters, r)
                s == Release(sem_value, w, woken \ {r})
            IN  /\ sem_waiters' = w
                /\ sem_value' = s.value
                /\ woken' = s.woken
       ELSE /\ sem_waiters' = Without(sem_waiters, r)
            /\ UNCHANGED <<sem_value, woken>>
    /\ pc' = [pc EXCEPT ![r] = "cancelled"]
    /\ thread' = [thread EXCEPT ![r] = IF @ = "running" THEN "running" ELSE "none"]
    /\ UNCHANGED <<req_text, status, service, constructed, synth_arg,
                   synth_calls, textVars, sessVars, audioVars, clientVars>>

\* a finished request is forgotten; its identity serves a later request
Forget(r) ==
    /\ pc[r] \in {"done", "cancelled"}
    /\ thread[r] # "running"
    /\ req_text' = [req_text EXCEPT ![r] = 0]
    /\ pc' = [pc EXCEPT ![r] = "idle"]
    /\ status' = [status EXCEPT ![r] = 0]
    /\ thread' = [thread EXCEPT ![r] = "none"]
    /\ synth_arg' = [synth_arg EXCEPT ![r] = <<>>]
    /\ synth_calls' = [synth_calls EXCEPT ![r] = 0]
    /\ UNCHANGED <<sem_value, sem_waiters, woken, service, constructed,
                   textVars, sessVars, audioVars, clientVars>>

\* the process after import of app.py, no request received
GateStart ==
    /\ req_text = [r \in Requests |-> 0]
    /\ pc = [r \in Requests |-> "idle"]
    /\ status = [r \in Requests |-> 0]
    /\ sem_value = SEMAPHORE_SIZE
    /\ sem_waiters = <<>>
    /\ woken = {}
    /\ service = "None"
    /\ constructed = 0
    /\ thread = [r \in Requests |-> "none"]
    /\ synth_arg = [r \in Requests |-> <<>>]
    /\ synth_calls = [r \in Requests |-> 0]

\* no text function called
TextStart ==
    /\ text = <<>>
    /\ max_chars = 0
    /\ cleaned = <<>>
    /\ recleaned = <<>>
    /\ chunks = <<>>
    /\ tpc = "input"

\* a session as created, before any message
SessionStart ==
    /\ sess_state = "CREATED"
    /\ sess_error = "none"
    /\ accumulated_audio = <<>>
    /\ last_seq = 0
    /\ results = 0
    /\ delivered = 0
    /\ ignored = 0

\* no audio synthesized
AudioStart ==
    /\ wav_len = 0
    /\ source_sr = 0
    /\ file_len = 0
    /\ file_sr = 0
    /\ pcm_len = 0
    /\ resampled = {}
    /\ apc = "none"

\* mic_client after main() has created the WebSocketApp and started the
\* thread of ws.run_forever, and waits in input()
ClientStart ==
    /\ main_pc = "input"
    /\ ws_pc = "connecting"
    /\ cap_pc = "unstarted"
    /\ conn = "none"
    /\ stop_event = FALSE
    /\ sent = <<>>
    /\ srv_read = 0
    /\ inbox = <<>>
    /\ handled = 0

\* a session that receives nothing
SessionIdle == SessionStart /\ frame_policy = "buffer"

Init == GateStart /\ TextStart /\ SessionIdle /\ AudioStart /\ ClientStart

Next ==
    \/ \E r \in Requests : \E i \in DOMAIN RequestTexts : Submit(r, i)
    \/ \E r \in Requests : WaiterResume(r)
    \/ \E r \in Requests : ThreadReturn(r)
    \/ \E r \in Requests : ThreadRaise(r)
    \/ \E r \in Requests : TaskResume(r)
    \/ \E r \in Requests : Cancel(r)
    \/ \E r \in Requests : Forget(r)

Spec == Init /\ [][Next]_vars

---------------------------------------------------------------------------
(* The stream session of the server, from section 4.4 of the design: the   *)
(* server side of /v1/audio/stream, to which client/mic_client.py talks.   *)

MaxMessages == 5
MaxSeq == 3

Terminal == {"ENDED", "FAILED"}

\* a session that takes only ENDED for terminal
IsTerminalEndedOnly(st) == st = "ENDED"

\* ENDED and FAILED are terminal
IsTerminal(st) == st \in Terminal

\* what the transport delivers to a session: the two control messages, an
\* audio frame with its frame_sequence_number, a message that does not
\* parse, and a transport error
Messages ==
    {[type |-> "start"], [type |-> "end"], [type |-> "malformed"],
     [type |-> "transport_error"]}
        \cup {[type |-> "frame", seq |-> n] : n \in 1..MaxSeq}

\* a failure that still emits what the session has so far
FailWithPartialResult(e) ==
    /\ sess_state' = "FAILED"
    /\ sess_error' = e
    /\ accumulated_audio' = <<>>
    /\ results' = results + 1
    /\ UNCHANGED last_seq

\* the session ends in FAILED with error e and is discarded
Fail(e) ==
    /\ sess_state' = "FAILED"
    /\ sess_error' = e
    /\ accumulated_audio' = <<>>
    /\ UNCHANGED <<last_seq, results>>

\* the session handles one delivered message
OnMessage(m) ==
    /\ delivered < MaxMessages
    /\ delivered' = delivered + 1
    /\ UNCHANGED frame_policy
    /\ IF IsTerminal(sess_state)
       THEN \* ignored, not an error
            /\ ignored' = ignored + 1
            /\ UNCHANGED <<sess_state, sess_error, accumulated_audio, last_seq, results>>
       ELSE
            /\ UNCHANGED ignored
            /\ IF m.type \in {"malformed", "transport_error"}
               THEN Fail(IF m.type = "malformed" THEN "MalformedMessage" ELSE "TransportError")
               ELSE IF m.type = "start"
               THEN IF sess_state = "CREATED"
                    THEN /\ sess_state' = "STREAMING"
                         /\ UNCHANGED <<sess_error, accumulated_audio, last_seq, results>>
                    ELSE Fail("ProtocolError")
               ELSE IF m.type = "frame"
               THEN IF sess_state = "CREATED" /\ frame_policy = "reject"
                    THEN Fail("ProtocolError")
                    ELSE IF m.seq < last_seq
                    THEN Fail("OrderingError")
                    ELSE /\ accumulated_audio' = Append(accumulated_audio, m.seq)
                         /\ last_seq' = m.seq
                         /\ UNCHANGED <<sess_state, sess_error, results>>
               ELSE \* the end control message
                    IF sess_state = "CREATED"
                    THEN Fail("ProtocolError")
                    ELSE \/ \* transcription and synthesis succeed: one result
                            /\ sess_state' = "ENDED"
                            /\ results' = results + 1
                            /\ accumulated_audio' = <<>>
                            /\ UNCHANGED <<sess_error, last_seq>>
                         \/ Fail("TranscriptionError")
                         \/ Fail("SynthesisError")
    /\ UNCHANGED <<textVars, gateVars, audioVars>>

InitSession ==
    /\ SessionStart
    /\ frame_policy \in {"buffer", "reject"}
    /\ GateStart
    /\ TextStart
    /\ AudioStart
    /\ ClientStart

NextSession == \E m \in Messages : OnMessage(m) /\ UNCHANGED clientVars

SpecSession == InitSession /\ [][NextSession]_vars

---------------------------------------------------------------------------
(* client/mic_client.py: the main thread, the thread of ws.run_forever     *)
(* with the callbacks on_open, on_message, on_error and on_close, and the  *)
(* thread of _capture, talking to the session above over one connection.   *)
(* conn is "none" before the connection is made, "open", "dead" when the   *)
(* transport has failed or the server has closed and the client has not    *)
(* yet torn down, "closed" after ws.close() or the teardown.               *)

StartMessage == [type |-> "start"]
EndMessage == [type |-> "end"]

NumFrames(out) == Len(SelectSeq(out, LAMBDA m : m.type = "frame"))

\* the connection after message m was written to it; the frames of one
\* capture are numbered as read, and those beyond MaxSeq are not recorded
Written(out, m) ==
    IF m.type # "frame" THEN Append(out, m)
    ELSE IF NumFrames(out) < MaxSeq
         THEN Append(out, [type |-> "frame", seq |-> NumFrames(out) + 1])
         ELSE out

\* ws.send(m) when the connection is c: what is on the connection after it
\* and whether it raised. On an open connection the message is written; on
\* a dead one it is lost or the call raises; with no socket it raises
WsSend(c, out, m) ==
    IF c = "open" THEN {[sent |-> Written(out, m), raised |-> FALSE]}
    ELSE IF c = "dead" THEN {[sent |-> out, raised |-> FALSE],
                              [sent |-> out, raised |-> TRUE]}
    ELSE {[sent |-> out, raised |-> TRUE]}

CaptureAlive == cap_pc \in {"test", "read", "send"}

\* run_forever: the connection is made, or the attempt fails
Connect ==
    /\ ws_pc = "connecting"
    /\ \/ conn' = "open" /\ ws_pc' = "on_open"
       \/ conn' = conn /\ ws_pc' = "on_error"
    /\ UNCHANGED <<main_pc, cap_pc, stop_event, sent, srv_read, inbox, handled,
                   textVars, gateVars, sessVars, audioVars>>

\* on_open, line 36: ws.send(json.dumps({"type": "start"})); an exception of
\* a callback is caught by the library, which calls on_error and reads on
OnOpenSendStart ==
    /\ ws_pc = "on_open"
    /\ \E o \in WsSend(conn, sent, StartMessage) :
          /\ sent' = o.sent
          /\ IF o.raised
             THEN stop_event' = TRUE /\ ws_pc' = "reading"
             ELSE stop_event' = stop_event /\ ws_pc' = "start_capture"
    /\ UNCHANGED <<main_pc, cap_pc, conn, srv_read, inbox, handled,
                   textVars, gateVars, sessVars, audioVars>>

\* on_open, line 44: threading.Thread(target=_capture, daemon=True).start()
OnOpenStartCapture ==
    /\ ws_pc = "start_capture"
    /\ cap_pc' = "test"
    /\ ws_pc' = "reading"
    /\ UNCHANGED <<main_pc, conn, stop_event, sent, srv_read, inbox, handled,
                   textVars, gateVars, sessVars, audioVars>>

\* on_message, lines 48-51: a message of the server is read (what arrived
\* before the connection died is still read); a result is printed, anything
\* else is passed over
OnMessageReceive ==
    /\ ws_pc = "reading"
    /\ conn \in {"open", "dead"}
    /\ inbox # <<>>
    /\ inbox' = Tail(inbox)
    /\ IF Head(inbox) = "result"
       THEN handled' = handled + 1 /\ ws_pc' = "result_stop"
       ELSE handled' = handled /\ ws_pc' = ws_pc
    /\ UNCHANGED <<main_pc, cap_pc, conn, stop_event, sent, srv_read,
                   textVars, gateVars, sessVars, audioVars>>

\* on_message, line 52: stop_event.set()
OnMessageStop ==
    /\ ws_pc = "result_stop"
    /\ stop_event' = TRUE
    /\ ws_pc' = "result_close"
    /\ UNCHANGED <<main_pc, cap_pc, conn, sent, srv_read, inbox, handled,
                   textVars, gateVars, sessVars, audioVars>>

\* an on_message that leaves the connection open and reads on
OnMessageNoClose ==
    /\ ws_pc = "result_close"
    /\ ws_pc' = "reading"
    /\ UNCHANGED <<main_pc, cap_pc, conn, stop_event, sent, srv_read, inbox, handled,
                   textVars, gateVars, sessVars, audioVars>>

\* on_message, line 53: ws.close(); run_forever stops reading and returns,
\* with or without a call of on_close
OnMessageClose ==
    /\ ws_pc = "result_close"
    /\ conn' = "closed"
    /\ ws_pc' \in {"on_close", "finished"}
    /\ UNCHANGED <<main_pc, cap_pc, stop_event, sent, srv_read, inbox, handled,
                   textVars, gateVars, sessVars, audioVars>>

\* run_forever finds the connection dead: an error, reported to on_error,
\* or the close of the server, which goes to the teardown
Disconnected ==
    /\ ws_pc = "reading"
    /\ conn = "dead"
    /\ ws_pc' \in {"on_error", "teardown"}
    /\ UNCHANGED <<main_pc, cap_pc, conn, stop_event, sent, srv_read, inbox, handled,
                   textVars, gateVars, sessVars, audioVars>>

\* on_error, lines 57-59
OnError ==
    /\ ws_pc = "on_error"
    /\ stop_event' = TRUE
    /\ ws_pc' = "teardown"
    /\ UNCHANGED <<main_pc, cap_pc, conn, sent, srv_read, inbox, handled,
                   textVars, gateVars, sessVars, audioVars>>

\* the teardown of run_forever: the socket is closed and dropped
Teardown ==
    /\ ws_pc = "teardown"
    /\ conn' = "closed"
    /\ ws_pc' = "on_close"
    /\ UNCHANGED <<main_pc, cap_pc, stop_event, sent, srv_read, inbox, handled,
                   textVars, gateVars, sessVars, audioVars>>

\* on_close, lines 61-62; run_forever returns
OnClose ==
    /\ ws_pc = "on_close"
    /\ stop_event' = TRUE
    /\ ws_pc' = "finished"
    /\ UNCHANGED <<main_pc, cap_pc, conn, sent, srv_read, inbox, handled,
                   textVars, gateVars, sessVars, audioVars>>

\* a loop test that does not look at the stop signal
LoopTestIgnoresStop(stop) == "read"

\* _capture, line 40: while not stop_event.is_set()
LoopTest(stop) == IF stop THEN "exited" ELSE "read"

CaptureTest ==
    /\ cap_pc = "test"
    /\ cap_pc' = LoopTest(stop_event)
    /\ UNCHANGED <<main_pc, ws_pc, conn, stop_event, sent, srv_read, inbox, handled,
                   textVars, gateVars, sessVars, audioVars>>

\* _capture, line 41: stream.read(frame_samples) returns, or the device fails
CaptureRead ==
    /\ cap_pc = "read"
    /\ cap_pc' \in {"send", "raised"}
    /\ UNCHANGED <<main_pc, ws_pc, conn, stop_event, sent, srv_read, inbox, handled,
                   textVars, gateVars, sessVars, audioVars>>

\* _capture, line 42: ws.send(audio.tobytes(), opcode=2)
CaptureSend ==
    /\ cap_pc = "send"
    /\ \E o \in WsSend(conn, sent, [type |-> "frame"]) :
          /\ sent' = o.sent
          /\ cap_pc' = IF o.raised THEN "raised" ELSE "test"
    /\ UNCHANGED <<main_pc, ws_pc, conn, stop_event, srv_read, inbox, handled,
                   textVars, gateVars, sessVars, audioVars>>

\* main, lines 71-72: input() returns and ws.send(json.dumps({"type": "end"}))
PressEnter ==
    /\ main_pc = "input"
    /\ \E o \in WsSend(conn, sent, EndMessage) :
          /\ sent' = o.sent
          /\ main_pc' = IF o.raised THEN "raised" ELSE "join"
    /\ UNCHANGED <<ws_pc, cap_pc, conn, stop_event, srv_read, inbox, handled,
                   textVars, gateVars, sessVars, audioVars>>

\* main, lines 74-75: t is no longer alive and main returns
Join ==
    /\ main_pc = "join"
    /\ ws_pc = "finished"
    /\ main_pc' = "returned"
    /\ UNCHANGED <<ws_pc, cap_pc, conn, stop_event, sent, srv_read, inbox, handled,
                   textVars, gateVars, sessVars, audioVars>>

\* the main thread has ended, by return or by exception: the process exits
\* and its daemon threads end with it
ProcessExit ==
    /\ main_pc \in {"returned", "raised"}
    /\ main_pc' = "exited"
    /\ ws_pc' = IF ws_pc = "finished" THEN ws_pc ELSE "killed"
    /\ cap_pc' = IF CaptureAlive THEN "killed" ELSE cap_pc
    /\ conn' = IF conn \in {"open", "dead"} THEN "dead" ELSE conn
    /\ UNCHANGED <<stop_event, sent, srv_read, inbox, handled,
                   textVars, gateVars, sessVars, audioVars>>

\* the session of the server receives the next message of the client; the
\* result it emits on the way to ENDED goes to the client
ServerReceive ==
    /\ srv_read < Len(sent)
    /\ OnMessage(sent[srv_read + 1])
    /\ srv_read' = srv_read + 1
    /\ inbox' = IF results' > results THEN Append(inbox, "result") ELSE inbox
    /\ UNCHANGED <<main_pc, ws_pc, cap_pc, conn, stop_event, sent, handled>>

\* a server that does not keep to the design sends its result once more
ServerRepeatsResult ==
    /\ conn = "open"
    /\ results > 0
    /\ Len(inbox) + handled < 2
    /\ inbox' = Append(inbox, "result")
    /\ UNCHANGED <<main_pc, ws_pc, cap_pc, conn, stop_event, sent, srv_read, handled,
                   textVars, gateVars, sessVars, audioVars>>

\* the transport fails or the server closes the connection; the session
\* takes it as a transport error
TransportFails ==
    /\ conn = "open"
    /\ conn' = "dead"
    /\ IF delivered < MaxMessages
       THEN OnMessage([type |-> "transport_error"])
       ELSE UNCHANGED <<sessVars, textVars, gateVars, audioVars>>
    /\ UNCHANGED <<main_pc, ws_pc, cap_pc, stop_event, sent, srv_read, inbox, handled>>

InitClient ==
    /\ ClientStart
    /\ SessionStart
    /\ frame_policy \in {"buffer", "reject"}
    /\ GateStart
    /\ TextStart
    /\ AudioStart

CaptureStep == CaptureTest \/ CaptureRead \/ CaptureSend

NextClient ==
    \/ Connect
    \/ OnOpenSendStart
    \/ OnOpenStartCapture
    \/ OnMessageReceive
    \/ OnMessageStop
    \/ OnMessageClose
    \/ Disconnected
    \/ OnError
    \/ Teardown
    \/ OnClose
    \/ CaptureStep
    \/ PressEnter
    \/ Join
    \/ ProcessExit
    \/ ServerReceive
    \/ ServerRepeatsResult
    \/ TransportFails

SpecClient == InitClient /\ [][NextClient]_vars

\* the threads of the client are scheduled: every step of the capture
\* thread and of the callbacks that is ready is taken
FairClient ==
    /\ InitClient
    /\ [][NextClient]_vars
    /\ WF_vars(CaptureStep)
    /\ WF_vars(OnMessageStop \/ OnMessageClose \/ OnError \/ Teardown \/ OnClose)

---------------------------------------------------------------------------
(* Properties of the client and of the session it talks to.                *)

\* the session has received start, then audio frames only (the connection
\* keeps them in order), then end
CompletedRun ==
    \E k \in 2..srv_read :
        /\ sent[1] = StartMessage
        /\ sent[k] = EndMessage
        /\ \A j \in 2..(k - 1) : sent[j].type = "frame"

CapabilityErrors == {"TranscriptionError", "SynthesisError"}

\* C11: a session that has received start, in-order frames and end is in
\* ENDED with exactly one result emitted, unless transcription, synthesis
\* or the transport failed, and then it has emitted none; no session emits
\* two. The client handles a result by setting its stop signal and closing
\* the connection, and handles no second result, whatever the server sends.
OneResultPerRun ==
    /\ [](/\ results <= 1
          /\ results = 1 <=> sess_state = "ENDED"
          /\ sess_state = "ENDED" => CompletedRun
          /\ CompletedRun =>
                \/ sess_state = "ENDED"
                \/ /\ sess_state = "FAILED"
                   /\ sess_error \in CapabilityErrors \cup {"TransportError"})
    /\ [](/\ handled <= 1
          /\ (handled = 1 /\ ws_pc # "result_stop") => stop_event
          /\ (handled = 1 /\ ws_pc \notin {"result_stop", "result_close"}) =>
                 /\ conn = "closed"
                 /\ ws_pc \in {"on_close", "finished", "killed"})
    /\ [][handled' # handled =>
              /\ Head(inbox) = "result"
              /\ handled' = handled + 1
              /\ ws_pc' = "result_stop"]_vars

\* the session ended with its result after start, two frames or more and
\* end; the client handled the result and closed, and a second result the
\* server sent was never read
ResultHandledOnce ==
    /\ sess_state = "ENDED"
    /\ NumFrames(SubSeq(sent, 1, srv_read)) > 1
    /\ handled = 1
    /\ stop_event
    /\ conn = "closed"
    /\ inbox # <<>>

\* C18: the first message the client writes to the connection is start.
StartSentFirst ==
    sent # <<>> => Head(sent) = StartMessage

\* C19: the capture thread begins no read once it has seen the stop signal
\* at its loop test; it ends only by leaving its loop there, by an exception
\* of its read or send, or with the process; the callbacks on a result, on
\* an error and on close set the signal; and after any of them the thread
\* ends.
CooperativeStop ==
    /\ [][(stop_event /\ cap_pc = "test") => cap_pc' \in {"test", "exited", "killed"}]_vars
    /\ [][(CaptureAlive /\ ~CaptureAlive') =>
              \/ cap_pc = "test" /\ stop_event /\ cap_pc' = "exited"
              \/ cap_pc \in {"read", "send"} /\ cap_pc' = "raised"
              \/ main_pc' = "exited" /\ cap_pc' = "killed"]_vars
    /\ [](ws_pc \in {"result_close", "finished"} => stop_event)
    /\ (stop_event /\ CaptureAlive) ~> ~CaptureAlive
    /\ (handled > 0 \/ ws_pc \in {"on_error", "on_close"}) ~> ~CaptureAlive

\* the capture thread sent frames, the result arrived, and the thread left
\* its loop on the stop signal while the main thread still waits for t
CaptureStoppedOnResult ==
    /\ handled = 1
    /\ stop_event
    /\ NumFrames(sent) > 0
    /\ cap_pc = "exited"
    /\ main_pc = "join"

---------------------------------------------------------------------------
(* The sample counts of the audio path: TtsService.synthesize_wav_b64      *)
(* brings the samples of the voice model to 24000 Hz and writes a WAV,     *)
(* _decode_wav_to_pcm16 reads a WAV and brings it to TARGET_SAMPLE_RATE.   *)

TARGET_SAMPLE_RATE == 24000

MaxSamples == 12

\* the rates a voice model or a WAV file comes with; 22050 is the default
\* of synthesize_wav_b64
SourceRates == {16000, 22050, 24000, 44100, 48000}

\* round(a / b) of Python for a >= 0, b > 0: to the nearest integer, a tie
\* to the even one
Round(a, b) ==
    LET q == a \div b
        rem == a % b
    IN  IF 2 * rem < b THEN q
        ELSE IF 2 * rem > b THEN q + 1
        ELSE IF q % 2 = 0 THEN q ELSE q + 1

\* num_samples = int(len(audio) * target / sr): the quotient, truncated
NumSamples(n, sr, target) == (n * target) \div sr

\* the length and rate after the step "if sr != target: resample", and
\* whether resample was called
Resample(n, sr, target) ==
    IF sr # target
    THEN [len |-> NumSamples(n, sr, target), sr |-> target, called |-> TRUE]
    ELSE [len |-> n, sr |-> sr, called |-> FALSE]

InitAudio ==
    /\ wav_len \in 1..MaxSamples
    /\ source_sr \in SourceRates
    /\ file_len = 0
    /\ file_sr = 0
    /\ pcm_len = 0
    /\ resampled = {}
    /\ apc = "samples"
    /\ GateStart
    /\ TextStart
    /\ SessionIdle
    /\ ClientStart

\* synthesize_wav_b64 from the samples of the voice model to the WAV it
\* returns, written at target_sr = 24000 whether resampled or not
SynthesizeWav ==
    /\ apc = "samples"
    /\ LET r == Resample(wav_len, source_sr, 24000)
       IN  /\ file_len' = r.len
           /\ file_sr' = 24000
           /\ resampled' = IF r.called THEN {"synthesize_wav_b64"} ELSE {}
    /\ apc' = "wav"
    /\ UNCHANGED <<wav_len, source_sr, pcm_len, textVars, gateVars, sessVars,
                   clientVars>>

\* _decode_wav_to_pcm16 on the WAV of synthesize_wav_b64
DecodeWav ==
    /\ apc = "wav"
    /\ LET r == Resample(file_len, file_sr, TARGET_SAMPLE_RATE)
       IN  /\ pcm_len' = r.len
           /\ resampled' = IF r.called THEN resampled \cup {"_decode_wav_to_pcm16"}
                            ELSE resampled
    /\ apc' = "pcm"
    /\ UNCHANGED <<wav_len, source_sr, file_len, file_sr, textVars, gateVars, sessVars,
                   clientVars>>

\* _decode_wav_to_pcm16 on a WAV of wav_len samples at source_sr
DecodeOtherWav ==
    /\ apc = "samples"
    /\ file_len' = wav_len
    /\ file_sr' = source_sr
    /\ LET r == Resample(wav_len, source_sr, TARGET_SAMPLE_RATE)
       IN  /\ pcm_len' = r.len
           /\ resampled' = IF r.called THEN {"_decode_wav_to_pcm16"} ELSE {}
    /\ apc' = "decoded"
    /\ UNCHANGED <<wav_len, source_sr, textVars, gateVars, sessVars,
                   clientVars>>

NextAudio == SynthesizeWav \/ DecodeWav \/ DecodeOtherWav

SpecAudio == InitAudio /\ [][NextAudio]_vars

\* C12: resample is called only when the source rate is not 24000, and
\* then the samples that come out number round(len * 24000 / source_rate);
\* at 24000 nothing is resampled and the count is unchanged.
ResampleCount ==
    /\ apc \in {"wav", "pcm"} =>
          /\ ("synthesize_wav_b64" \in resampled) <=> (source_sr # 24000)
          /\ file_len = IF source_sr = 24000 THEN wav_len
                        ELSE Round(wav_len * 24000, source_sr)
    /\ apc \in {"pcm", "decoded"} =>
          /\ ("_decode_wav_to_pcm16" \in resampled) <=> (file_sr # TARGET_SAMPLE_RATE)
          /\ pcm_len = IF file_sr = TARGET_SAMPLE_RATE THEN file_len
                       ELSE Round(file_len * TARGET_SAMPLE_RATE, file_sr)

---------------------------------------------------------------------------
(* The inputs of the text functions.                                       *)

MaxTextLen == 8
SanitizeAlphabet == {"*", "a", "_", " ", "\n"}

MaxSplitLen == 7
MaxChars == 3
SplitAlphabet == {"a", ".", " ", "_"}

SeqsUpTo(A, n) == UNION {[1..k -> A] : k \in 0..n}

InitSanitize ==
    /\ text \in SeqsUpTo(SanitizeAlphabet, MaxTextLen)
    /\ max_chars = 0
    /\ cleaned = <<>>
    /\ recleaned = <<>>
    /\ chunks = <<>>
    /\ tpc = "input"
    /\ GateStart
    /\ SessionIdle
    /\ AudioStart
    /\ ClientStart

CallSanitize ==
    /\ tpc = "input"
    /\ cleaned' = _sanitize_tts_text(text)
    /\ tpc' = "sanitized"
    /\ UNCHANGED <<text, max_chars, recleaned, chunks, gateVars, sessVars, audioVars, clientVars>>

CallSanitizeAgain ==
    /\ tpc = "sanitized"
    /\ recleaned' = _sanitize_tts_text(cleaned)
    /\ tpc' = "resanitized"
    /\ UNCHANGED <<text, max_chars, cleaned, chunks, gateVars, sessVars, audioVars, clientVars>>

NextSanitize == CallSanitize \/ CallSanitizeAgain

SpecSanitize == InitSanitize /\ [][NextSanitize]_vars

InitSplit ==
    /\ text \in SeqsUpTo(SplitAlphabet, MaxSplitLen)
    /\ max_chars \in 1..MaxChars
    /\ cleaned = <<>>
    /\ recleaned = <<>>
    /\ chunks = <<>>
    /\ tpc = "input"
    /\ GateStart
    /\ SessionIdle
    /\ AudioStart
    /\ ClientStart

CallSplit ==
    /\ tpc = "input"
    /\ max_chars > 0
    /\ cleaned' = _sanitize_tts_text(text)
    /\ chunks' = _split_text_for_tts(text, max_chars)
    /\ tpc' = "split"
    /\ UNCHANGED <<text, max_chars, recleaned, gateVars, sessVars, audioVars, clientVars>>

NextSplit == CallSplit

SpecSplit == InitSplit /\ [][NextSplit]_vars

\* the text of the example of section 8 of the design, repeated
MaxRepetitions == 60

HelloWorld == <<"H", "e", "l", "l", "o", " ", "w", "o", "r", "l", "d", ".", " ">>

\* s * n
RepeatText(s, n) == [i \in 1..(n * Len(s)) |-> s[((i - 1) % Len(s)) + 1]]

InitExample ==
    /\ text \in {RepeatText(HelloWorld, n) : n \in 1..MaxRepetitions}
    /\ max_chars = MAX_TTS_CHUNK_CHARS
    /\ cleaned = <<>>
    /\ recleaned = <<>>
    /\ chunks = <<>>
    /\ tpc = "input"
    /\ GateStart
    /\ SessionIdle
    /\ AudioStart
    /\ ClientStart

SpecExample == InitExample /\ [][NextSplit]_vars

---------------------------------------------------------------------------
(* Properties of the text functions.                                       *)

\* " ".join(chunks)
RECURSIVE JoinChunks(_)
JoinChunks(cs) ==
    IF cs = <<>> THEN <<>>
    ELSE IF Len(cs) = 1 THEN cs[1]
    ELSE cs[1] \o <<" ">> \o JoinChunks(Tail(cs))

\* the characters of s that are not whitespace, in order
NonWhitespace(s) == SelectSeq(s, LAMBDA c : c \notin Whitespace)

\* C2: every chunk returned by _split_text_for_tts(text, max_chars), for
\* max_chars > 0, is non-empty and at most max_chars characters long.
ChunkBoundInvariant ==
    tpc = "split" =>
        \A i \in 1..Len(chunks) :
            /\ Len(chunks[i]) <= max_chars
            /\ chunks[i] # <<>>

\* C3: sanitizing a sanitized text changes nothing.
SanitizeIdempotent ==
    tpc = "resanitized" => recleaned = cleaned

\* C4: the chunks joined by single spaces are the sanitized text up to
\* whitespace: read at its weakest, the characters that are not whitespace
\* are those of the sanitized text, none added, removed or reordered.
OrderPreservation ==
    tpc = "split" =>
        NonWhitespace(JoinChunks(chunks)) = NonWhitespace(cleaned)

\* C13: "Hello world. " * 50, 650 characters, split with max_chars = 500
\* gives exactly two chunks, each non-empty and at most 500 characters long,
\* and the chunks joined by single spaces are the sanitized text.
HelloWorldExample ==
    (tpc = "split" /\ text = RepeatText(HelloWorld, 50) /\ max_chars = 500) =>
        /\ Len(text) = 650
        /\ Len(chunks) = 2
        /\ \A i \in 1..Len(chunks) : chunks[i] # <<>> /\ Len(chunks[i]) <= 500
        /\ JoinChunks(chunks) = cleaned

\* the example text has been split, and its first chunk is packed of 38 sentences
HelloWorldSplit ==
    /\ tpc = "split"
    /\ text = RepeatText(HelloWorld, 50)
    /\ max_chars = 500
    /\ Len(chunks) > 1
    /\ Len(chunks[1]) = 38 * 12 + 37

\* the sentences of the sanitized text, as the splitter cuts them
Sentences == SplitSentences(cleaned, 1)

\* the sentences and slices the chunks are made of, in order
RECURSIVE Pieces(_)
Pieces(cs) ==
    IF cs = <<>> THEN <<>>
    ELSE SplitSentences(cs[1], 1) \o Pieces(Tail(cs))

\* the elements of a, in order, are among those of b
RECURSIVE IsSubsequence(_, _)
IsSubsequence(a, b) ==
    IF a = <<>> THEN TRUE
    ELSE IF b = <<>> THEN FALSE
    ELSE IF Head(a) = Head(b) THEN IsSubsequence(Tail(a), Tail(b))
    ELSE IsSubsequence(a, Tail(b))

\* C15: every non-empty sentence of the sanitized text that fits in
\* max_chars is in the chunks, in input order; none is lost when the
\* sentence after it does not fit or is hard-split.
NoSentenceLost ==
    tpc = "split" =>
        IsSubsequence(SelectSeq(Sentences, LAMBDA x : x # <<>> /\ Len(x) <= max_chars),
                      Pieces(chunks))

\* the slices of a sentence, stripped, the empty ones left out
StrippedSlices(sentence, max) ==
    SelectSeq([j \in 1..NumSlices(sentence, max) |-> Strip(Slice(sentence, j, max))],
              LAMBDA p : p # <<>>)

\* the elements of a are consecutive elements of b
Occurs(a, b) ==
    \E o \in 0..(Len(b) - Len(a)) : SubSeq(b, o + 1, o + Len(a)) = a

LongSentences == {k \in 1..Len(Sentences) : Len(Sentences[k]) > max_chars}

\* C16 as stated: a sentence of length L > max_chars gives ceil(L / max_chars)
\* chunks, its consecutive slices of exactly max_chars characters, the last
\* possibly shorter, each a chunk of its own.
HardSplitExactSlices ==
    tpc = "split" =>
        \A k \in LongSentences :
            /\ Occurs([j \in 1..NumSlices(Sentences[k], max_chars) |->
                          Slice(Sentences[k], j, max_chars)], chunks)
            /\ Len(Sentences) = 1 => Len(chunks) = NumSlices(Sentences[k], max_chars)

\* C16 as the code has it: a sentence of length L > max_chars gives its
\* consecutive slices of max_chars characters, each stripped of the
\* whitespace at its ends and left out when nothing remains: at most
\* ceil(L / max_chars) chunks of at most max_chars characters, each a chunk
\* of its own, and nothing else when the text is that one sentence.
HardSplitStrippedSlices ==
    tpc = "split" =>
        \A k \in LongSentences :
            /\ Occurs(StrippedSlices(Sentences[k], max_chars), chunks)
            /\ Len(StrippedSlices(Sentences[k], max_chars)) <= NumSlices(Sentences[k], max_chars)
            /\ \A p \in RangeOf(StrippedSlices(Sentences[k], max_chars)) :
                   p # <<>> /\ Len(p) <= max_chars
            /\ Len(Sentences) = 1 => chunks = StrippedSlices(Sentences[k], max_chars)

\* a sentence was hard-split and one of its slices, blank, was left out
HardSplitDroppedBlankSlice ==
    /\ tpc = "split"
    /\ \E k \in LongSentences :
          /\ Len(StrippedSlices(Sentences[k], max_chars)) < NumSlices(Sentences[k], max_chars)
          /\ Len(Sentences) = 1
          /\ Len(chunks) > 1

\* the sanitized text is longer than max_chars and each sentence fits
AllSentencesFit ==
    /\ Len(cleaned) > max_chars
    /\ \A k \in 1..Len(Sentences) : Len(Sentences[k]) <= max_chars

\* C17: when the sanitized text is longer than max_chars and every sentence
\* fits, the chunks are runs of consecutive sentences joined by single
\* spaces, all sentences in order, and a chunk is closed only when the next
\* sentence would overflow it.
GreedyPacking ==
    (tpc = "split" /\ AllSentencesFit) =>
        /\ Pieces(chunks) = Sentences
        /\ \A i \in 1..Len(chunks) :
               chunks[i] = JoinChunks(SplitSentences(chunks[i], 1))
        /\ \A i \in 1..(Len(chunks) - 1) :
               Len(chunks[i]) + 1 + Len(Head(SplitSentences(chunks[i + 1], 1))) > max_chars

\* two sentences were packed into one chunk and a third one closed it
PackedThenClosed ==
    /\ tpc = "split"
    /\ AllSentencesFit
    /\ Len(chunks) > 1
    /\ Len(SplitSentences(chunks[1], 1)) > 1

---------------------------------------------------------------------------
(* Properties of the handler and the gate.                                 *)

\* the event loop runs every task that is ready, and every synthesis call
\* ends (by returning or by raising)
FairSpec ==
    /\ Init
    /\ [][Next]_vars
    /\ \A r \in Requests :
          /\ WF_vars(WaiterResume(r))
          /\ WF_vars(TaskResume(r))
          /\ WF_vars(ThreadReturn(r) \/ ThreadRaise(r))

Running == {r \in Requests : thread[r] = "running"}
Holders == {r \in Requests : pc[r] = "synth"} \cup woken
Pending == {r \in Requests : pc[r] = "waiting" /\ r \notin woken}
InFlight == {r \in Requests : pc[r] \in {"waiting", "synth"}}

\* request r is past the acquire() of the gate: it synthesizes, or it left
\* the block with a response (400 and 413 are raised before the gate)
InGateNow(r) ==
    \/ pc[r] = "synth"
    \/ pc[r] = "done" /\ status[r] \in {200, 500}

\* the step in which acquire() returns for request r
Enters(r) == pc[r] \in {"idle", "waiting"} /\ InGateNow(r)'

\* C1: at no time are two bodies of service.synthesize_wav_b64 executing.
GateExclusivity ==
    Cardinality(Running) <= 1

\* C14: while the synthesis call of a cancelled request is still running in
\* its worker thread the gate stays taken: the permit is not free, no other
\* request holds it or has been handed it, and no other call is running.
CancellationKeepsGate ==
    \A r \in Requests :
        (pc[r] = "cancelled" /\ thread[r] = "running") =>
            /\ sem_value = 0
            /\ Holders = {}
            /\ Running = {r}

\* C5: a request that fails inside the gate takes nobody else with it and
\* leaves the gate usable: the failing step changes no other request, every
\* permit that is not free is held by a request that will release it, a
\* waiter is never left waiting for a permit nobody holds, and with no
\* request in flight exactly one permit is free.
GateNotPoisoned ==
    /\ [](/\ sem_value \in 0..SEMAPHORE_SIZE
          /\ sem_value + Cardinality(Holders) = SEMAPHORE_SIZE
          /\ Pending # {} => Holders # {}
          /\ InFlight = {} => sem_value = 1 /\ sem_waiters = <<>>)
    /\ [][\A r \in Requests :
             (status[r] # 500 /\ status'[r] = 500) =>
                 \A q \in Requests \ {r} :
                     /\ status'[q] = status[q]
                     /\ pc'[q] = pc[q]
                     /\ thread'[q] = thread[q]]_vars

\* the synthesis of a request failed, and a request that waited behind it
\* holds the gate and is synthesizing while a third still waits
FailedThenServed ==
    \E r, q, w \in Requests :
        /\ status[r] = 500
        /\ synth_calls[r] = 1
        /\ pc[q] = "synth"
        /\ thread[q] = "running"
        /\ pc[w] = "waiting"

\* C6: a request enters the gate only when nobody waits or when it is the
\* one that has waited longest, and every request that waits enters the gate
\* unless it is cancelled first.
GateFairness ==
    /\ [][\A r \in Requests :
             Enters(r) => (sem_waiters = <<>> \/ Head(sem_waiters) = r)]_vars
    /\ \A r \in Requests :
          (pc[r] = "waiting") ~> (InGateNow(r) \/ pc[r] = "cancelled")

\* the request that has waited longest holds the permit handed to it while
\* two others, which came later, still wait
ServedBeforeLaterWaiter ==
    /\ Len(sem_waiters) = 3
    /\ Head(sem_waiters) \in woken
    /\ Cardinality(Pending) = 2

\* C7: every text given to synthesize_wav_b64 is a chunk of the segmenter
\* for MAX_TTS_CHUNK_CHARS, so at most that long, and a request whose
\* sanitized text is longer is answered after more than one synthesis call.
SynthesisPerChunk ==
    \A r \in Requests :
        /\ synth_calls[r] > 0 =>
              /\ Len(synth_arg[r]) <= MAX_TTS_CHUNK_CHARS
              /\ synth_arg[r] \in
                    RangeOf(_split_text_for_tts(StrippedTexts[req_text[r]],
                                                MAX_TTS_CHUNK_CHARS))
        /\ (status[r] = 200 /\ Len(CleanedTexts[req_text[r]]) > MAX_TTS_CHUNK_CHARS)
              => synth_calls[r] > 1

\* C8: a request whose text (stripped, as the handler measures it) exceeds
\* MAX_TEXT_LENGTH is answered 413 in the step it arrives in, never waits
\* for, acquires or uses the gate, the service or a synthesis thread, and
\* its rejection changes nothing of the gate or the service.
SizeLimitBeforeGate ==
    /\ [](\A r \in Requests :
             (req_text[r] # 0 /\ Len(StrippedTexts[req_text[r]]) > MAX_TEXT_LENGTH) =>
                 /\ status[r] = 413
                 /\ pc[r] = "done"
                 /\ synth_calls[r] = 0
                 /\ thread[r] = "none"
                 /\ r \notin RangeOf(sem_waiters))
    /\ [][\A r \in Requests :
             (status[r] # 413 /\ status'[r] = 413) =>
                 UNCHANGED <<sem_value, sem_waiters, woken, service, constructed,
                             thread, synth_arg, synth_calls>>]_vars

\* a request was rejected for its size while one request holds the gate and
\* another waits for it
RejectedWhileGateBusy ==
    \E r, q, w \in Requests :
        /\ status[r] = 413
        /\ pc[q] = "synth"
        /\ pc[w] = "waiting"

\* C20: TtsService is constructed only by a request that has just acquired
\* the gate and finds _service unset, so at most once with success; when the
\* construction fails _service stays unset, the request is answered 500 with
\* the permit released, and the next request to enter constructs again.
SingleServiceInstance ==
    /\ [](/\ constructed <= 1
          /\ service = "TtsService" <=> constructed = 1)
    /\ [][constructed' # constructed =>
              /\ service = "None"
              /\ service' = "TtsService"
              /\ constructed' = constructed + 1
              /\ sem_value' = 0
              /\ \E r \in Requests : Enters(r) /\ pc'[r] = "synth"]_vars
    /\ [][\A r \in Requests :
              (Enters(r) /\ service = "None") =>
                  \/ constructed' = constructed + 1
                  \/ /\ status'[r] = 500
                     /\ synth_calls'[r] = 0
                     /\ service' = "None"
                     /\ r \notin Holders'
                     /\ sem_value' + Cardinality(Holders') = SEMAPHORE_SIZE]_vars

\* the construction failed for one request and a later request, retrying,
\* constructed the service and synthesizes with it
ConstructedOnRetry ==
    \E r, q \in Requests :
        /\ status[r] = 500
        /\ synth_calls[r] = 0
        /\ constructed = 1
        /\ pc[q] = "synth"

---------------------------------------------------------------------------
(* Properties of the stream session.                                       *)

\* C9: a session in ENDED or FAILED stays there, and a message delivered to
\* it then changes neither its state nor accumulated_audio and emits nothing.
SessionTerminalInvariant ==
    [][(sess_state \in Terminal) =>
           /\ sess_state' = sess_state
           /\ sess_error' = sess_error
           /\ accumulated_audio' = accumulated_audio
           /\ last_seq' = last_seq
           /\ results' = results]_vars

\* a message was delivered to a session that had ended with its result
MessageAfterTermination ==
    /\ sess_state = "ENDED"
    /\ results = 1
    /\ ignored > 0

\* C10: a result is emitted only on the step from STREAMING to ENDED, one at
\* a time, and a FAILED session has emitted none.
AllOrNothingResult ==
    /\ [](sess_state = "FAILED" => results = 0)
    /\ [][results' # results =>
              /\ sess_state = "STREAMING"
              /\ sess_state' = "ENDED"
              /\ results' = results + 1]_vars

\* a streaming session failed on a frame numbered lower than the one before
\* and has emitted nothing
FailedOnOutOfOrderFrame ==
    /\ sess_state = "FAILED"
    /\ sess_error = "OrderingError"
    /\ last_seq > 1
    /\ results = 0

=============================================================================
